---- MODULE Spec2Model ----
(***************************************************************************)
(* Linux Performance Switcher (src/Linux_Performance_Switcher.py).         *)
(*                                                                         *)
(* The Tk application as a state machine: construction, the self-          *)
(* rescheduling sensor tick, the three profile buttons and the privileged  *)
(* batch they run, plus the two discovery routines (CPU temperature        *)
(* source, GPU max power limit) as operators over explicit inputs.         *)
(*                                                                         *)
(* Optional values (Python None) are sequences: <<>> is None, <<x>> is x.  *)
(* Text is a sequence of one-character strings unless said otherwise.      *)
(***************************************************************************)
EXTENDS Integers, Sequences, FiniteSets, TLC

VARIABLES
    phase,            \* "new" | "running" | "destroyed" | "refused"
    environ,          \* os.environ restricted to DISPLAY and XAUTHORITY
    xauth_exists,     \* os.path.exists(xauthority)
    hwmon,            \* the /sys/class/hwmon tree
    max_power_limit,  \* self.max_power_limit
    cpu_temp_path,    \* self.cpu_temp_path
    labels,           \* the text of the four sensor labels and the info label
    status_label,     \* [text, fg] of self.status_label
    timers,           \* number of pending after() timers for the tick
    stack,            \* callbacks being executed, innermost last
    running,          \* pkexec subprocesses started and not yet reaped
    log,              \* what the callback dispatched last has done so far
    ticked,           \* whether update_sensor_readings ever ran
    reads,            \* what the three reads of the last tick gave
    probe,            \* outcome of the last _find_cpu_temp_path call
    smi               \* harness of _get_max_power_limit: calls, queries, last

vars == <<phase, environ, xauth_exists, hwmon, max_power_limit, cpu_temp_path,
          labels, status_label, timers, stack, running, log, ticked, reads, probe,
          smi>>

None == <<>>
Some(x) == <<x>>

----------------------------------------------------------------------------
(* Text helpers: str.strip, str.split(','), int(), lexicographic order.    *)

Whitespace == {" ", "\n", "\t"}

RECURSIVE LStrip(_)
LStrip(s) == IF s # <<>> /\ Head(s) \in Whitespace THEN LStrip(Tail(s)) ELSE s

RECURSIVE RStrip(_)
RStrip(s) ==
    IF s # <<>> /\ s[Len(s)] \in Whitespace
    THEN RStrip(SubSeq(s, 1, Len(s) - 1))
    ELSE s

Strip(s) == RStrip(LStrip(s))

\* str.split(','): the fields between commas, always at least one field.
RECURSIVE SplitComma(_, _)
SplitComma(s, cur) ==
    IF s = <<>> THEN <<cur>>
    ELSE IF Head(s) = "," THEN <<cur>> \o SplitComma(Tail(s), <<>>)
    ELSE SplitComma(Tail(s), Append(cur, Head(s)))

Digits == {"0", "1", "2", "3", "4", "5", "6", "7", "8", "9"}

DigitVal(c) ==
    CASE c = "0" -> 0 [] c = "1" -> 1 [] c = "2" -> 2 [] c = "3" -> 3
      [] c = "4" -> 4 [] c = "5" -> 5 [] c = "6" -> 6 [] c = "7" -> 7
      [] c = "8" -> 8 [] c = "9" -> 9

RECURSIVE DigitsVal(_, _)
DigitsVal(s, acc) ==
    IF s = <<>> THEN acc ELSE DigitsVal(Tail(s), 10 * acc + DigitVal(Head(s)))

AllIn(s, S) == \A i \in 1..Len(s) : s[i] \in S

\* int(text): optional sign, then one or more digits; None stands for
\* ValueError.  (int() itself strips surrounding whitespace.)
ParseInt(text) ==
    LET s == Strip(text)
        signed == s # <<>> /\ Head(s) \in {"+", "-"}
        body == IF signed THEN Tail(s) ELSE s
    IN  IF body = <<>> \/ ~AllIn(body, Digits) THEN None
        ELSE IF signed /\ Head(s) = "-" THEN Some(0 - DigitsVal(body, 0))
        ELSE Some(DigitsVal(body, 0))

\* Lexicographic order on sequences of character codes (str.__lt__).
RECURSIVE LexLess(_, _)
LexLess(a, b) ==
    IF b = <<>> THEN FALSE
    ELSE IF a = <<>> THEN TRUE
    ELSE IF Head(a) # Head(b) THEN Head(a) < Head(b)
    ELSE LexLess(Tail(a), Tail(b))

----------------------------------------------------------------------------
(* CPU temperature source discovery: _find_cpu_temp_path.                  *)
(*                                                                         *)
(* The tree is [exists, dirs]; dirs lists the hwmon* directories in the    *)
(* order the directory scan yields them.  A directory is [name, files]:    *)
(* name is the state of its "name" file ("absent", "unreadable" or "ok")   *)
(* with its text (a sequence of words and whitespace); files lists its     *)
(* temp*_input files in scan order, each [name, state, text] where name is *)
(* the character codes matched by the "*" of temp*_input.                  *)

CpuDrivers == {<<"coretemp">>, <<"k10temp">>}

Underscore == 95

\* The part of a file name that decides its place in sorted(): the
\* characters after "temp", up to and including the "_" of "_input".
SortKey(f) == Append(f.name, Underscore)

\* A faulty variant of Sorted: the scan order, as if sorted() were left out.
Unsorted(files) == files

\* sorted(sensor_dir.glob('temp*_input')): insertion of each file before
\* the first file that is lexicographically greater.
RECURSIVE Insert(_, _)
Insert(f, s) ==
    IF s = <<>> THEN <<f>>
    ELSE IF LexLess(SortKey(f), SortKey(Head(s))) THEN <<f>> \o s
    ELSE <<Head(s)>> \o Insert(f, Tail(s))

RECURSIVE InsertAll(_, _)
InsertAll(files, acc) ==
    IF files = <<>> THEN acc ELSE InsertAll(Tail(files), Insert(Head(files), acc))

Sorted(files) == InsertAll(files, <<>>)

PathOf(i, f) == [d |-> i, f |-> f.name]

\* Stage 1 from directory i on.  raised: an exception left the loop.
RECURSIVE Stage1(_, _)
Stage1(dirs, i) ==
    IF i > Len(dirs) THEN [path |-> None, searched |-> Len(dirs), raised |-> FALSE]
    ELSE LET d == dirs[i] IN
        IF d.name.state = "absent" THEN Stage1(dirs, i + 1)
        ELSE IF d.name.state = "unreadable"
        THEN [path |-> None, searched |-> i, raised |-> TRUE]
        ELSE IF Strip(d.name.text) \in CpuDrivers /\ Sorted(d.files) # <<>>
        THEN [path |-> Some(PathOf(i, Head(Sorted(d.files)))),
              searched |-> i, raised |-> FALSE]
        ELSE Stage1(dirs, i + 1)

\* 'nvidia' in text
ContainsNvidia(text) == \E i \in 1..Len(text) : text[i] = "nvidia"

PlausibleLow == 10
PlausibleHigh == 120
MilliPerDegree == 1000

\* 10 < int(text) / 1000 < 120
Plausible(v) == PlausibleLow * MilliPerDegree < v /\ v < PlausibleHigh * MilliPerDegree

\* The files rglob('temp*_input') yields: directory by directory, each
\* directory's files in scan order.
RECURSIVE Flatten(_, _)
Flatten(dirs, i) ==
    IF i > Len(dirs) THEN <<>>
    ELSE [k \in 1..Len(dirs[i].files) |-> [d |-> i, k |-> k]] \o Flatten(dirs, i + 1)

\* Stage 2 from the j-th yielded file on.  Reading the name is outside the
\* inner try, so its exception ends the whole scan; reading or parsing the
\* value is inside it and only skips the file.
RECURSIVE Stage2(_, _, _)
Stage2(dirs, flat, j) ==
    IF j > Len(flat) THEN [path |-> None, scanned |-> Len(flat), raised |-> FALSE]
    ELSE LET d == dirs[flat[j].d]
             f == d.files[flat[j].k]
             v == ParseInt(f.text)
         IN
        IF d.name.state = "unreadable"
        THEN [path |-> None, scanned |-> j, raised |-> TRUE]
        ELSE IF d.name.state = "ok" /\ ContainsNvidia(Strip(d.name.text))
        THEN Stage2(dirs, flat, j + 1)
        ELSE IF f.state = "unreadable" \/ v = None
        THEN Stage2(dirs, flat, j + 1)
        ELSE IF Plausible(v[1])
        THEN [path |-> Some(PathOf(flat[j].d, f)), scanned |-> j, raised |-> FALSE]
        ELSE Stage2(dirs, flat, j + 1)

\* The whole routine, with what it did: the result, whether Stage 2 was
\* reached, how many directories Stage 1 examined and how many files Stage 2.
find_cpu_temp_path(tree) ==
    IF ~tree.exists
    THEN [path |-> None, stage2 |-> FALSE, searched |-> 0, scanned |-> 0]
    ELSE LET s1 == Stage1(tree.dirs, 1) IN
        IF s1.path # None
        THEN [path |-> s1.path, stage2 |-> FALSE, searched |-> s1.searched, scanned |-> 0]
        ELSE LET s2 == Stage2(tree.dirs, Flatten(tree.dirs, 1), 1) IN
            [path |-> s2.path, stage2 |-> TRUE, searched |-> s1.searched,
             scanned |-> s2.scanned]

----------------------------------------------------------------------------
(* GPU max power limit discovery: _get_max_power_limit.                    *)
(*                                                                         *)
(* What `nvidia-smi -q -d POWER` gave is [ok, lines]: ok is FALSE when the *)
(* tool is missing or exits non-zero; a line is [key, num, unit] for the   *)
(* text "<key> : <num> <unit>".                                            *)

\* One line matches r"Max Power Limit\s+:\s+([\d\.]+) W".
PatternMatches(line) ==
    /\ line.key = "Max Power Limit"
    /\ line.num # <<>>
    /\ AllIn(line.num, Digits \cup {"."})
    /\ line.unit = "W"

\* re.search: the first match in the text, None without one.
RECURSIVE Search(_)
Search(lines) ==
    IF lines = <<>> THEN None
    ELSE IF PatternMatches(Head(lines)) THEN Some(Head(lines).num)
    ELSE Search(Tail(lines))

CountOf(s, c) == Cardinality({i \in 1..Len(s) : s[i] = c})

RECURSIVE IntPart(_)
IntPart(s) == IF s = <<>> \/ Head(s) = "." THEN <<>> ELSE <<Head(s)>> \o IntPart(Tail(s))

\* int(float(num)) for num made of digits and dots: None stands for the
\* ValueError of float(); the fraction is cut off.
IntOfFloat(num) ==
    IF CountOf(num, ".") > 1 \/ CountOf(num, ".") = Len(num) THEN None
    ELSE Some(DigitsVal(IntPart(num), 0))

\* A faulty variant of CacheHit: the cache is never consulted.
CacheIgnored(cache) == FALSE

\* if self.max_power_limit is not None
CacheHit(cache) == cache # None

\* The call on cache `cache` when the query would give `out`: the value
\* returned, the cache afterwards, and whether nvidia-smi was invoked.
get_max_power_limit(cache, out) ==
    IF CacheHit(cache) THEN [ret |-> cache, cache |-> cache, queried |-> FALSE]
    ELSE IF ~out.ok THEN [ret |-> None, cache |-> cache, queried |-> TRUE]
    ELSE LET m == Search(out.lines) IN
        IF m = None THEN [ret |-> None, cache |-> cache, queried |-> TRUE]
        ELSE IF IntOfFloat(m[1]) = None
        THEN [ret |-> None, cache |-> cache, queried |-> TRUE]
        ELSE [ret |-> IntOfFloat(m[1]), cache |-> IntOfFloat(m[1]), queried |-> TRUE]

PowerLine(k, n, u) == [key |-> k, num |-> n, unit |-> u]

SmiFailed == [ok |-> FALSE, lines |-> <<>>]
SmiReport(ls) == [ok |-> TRUE, lines |-> ls]

CurrentLimitLine == PowerLine("Current Power Limit", <<"1", "1", "5", ".", "0", "0">>, "W")

\* Reports the query can give: the tool failing, no such line, the line
\* without a number, a number float() rejects, and readable limits.
SmiOutputs ==
    {SmiFailed,
     SmiReport(<<CurrentLimitLine>>),
     SmiReport(<<PowerLine("Max Power Limit", <<"N", "/", "A">>, "")>>),
     SmiReport(<<PowerLine("Max Power Limit", <<"1", ".", "2", ".", "3">>, "W")>>),
     SmiReport(<<CurrentLimitLine,
                 PowerLine("Max Power Limit", <<"1", "4", "0", ".", "0", "0">>, "W")>>),
     SmiReport(<<PowerLine("Max Power Limit", <<"8", "0", ".", "9", "0">>, "W")>>),
     SmiReport(<<PowerLine("Max Power Limit", <<"N", "/", "A">>, ""),
                 PowerLine("Max Power Limit", <<"6", "0", ".", "0", "0">>, "W")>>),
     SmiReport(<<PowerLine("Max Power Limit", <<"0", ".", "0", "0">>, "W")>>)}

----------------------------------------------------------------------------
(* Sensor trees the discovery is run on.                                   *)

MaxDirs == 2      \* directories of a driver-name tree
MaxFiles == 2     \* temp*_input files of one directory
MaxSensors == 3   \* directories of a fallback tree, one file each

SeqsUpTo(S, n) == UNION {[1..k -> S] : k \in 0..n}

Injective(s) == \A i, j \in 1..Len(s) : i # j => s[i] # s[j]

NameAbsent == [state |-> "absent", text |-> <<>>]
NameUnreadable == [state |-> "unreadable", text |-> <<>>]
NameText(t) == [state |-> "ok", text |-> t]

T45000 == <<"4", "5", "0", "0", "0", "\n">>

\* temp1_input, temp2_input, temp10_input
FileNames == {<<49>>, <<50>>, <<49, 48>>}

OkFile(n, t) == [name |-> n, state |-> "ok", text |-> t]
UnreadableFile(n) == [name |-> n, state |-> "unreadable", text |-> <<>>]

\* Driver-name trees: every name state, every scan order of the files.
DriverNames ==
    {NameAbsent, NameUnreadable, NameText(<<"coretemp", "\n">>),
     NameText(<<"k10temp">>)}

DriverDirs ==
    {[name |-> n, files |-> [k \in 1..Len(fs) |-> OkFile(fs[k], T45000)]] :
        n \in DriverNames, fs \in {s \in SeqsUpTo(FileNames, MaxFiles) : Injective(s)}}

DriverTrees == {[exists |-> TRUE, dirs |-> ds] : ds \in SeqsUpTo(DriverDirs, MaxDirs)}

\* Fallback trees: one temp1_input per directory, every kind of content.
SensorNames ==
    {NameAbsent, NameUnreadable, NameText(<<"nvidia", "\n">>),
     NameText(<<"acpitz", "\n">>)}

SensorFiles ==
    {OkFile(<<49>>, T45000),
     OkFile(<<49>>, <<"1", "0", "0", "0", "0", "\n">>),
     OkFile(<<49>>, <<"1", "2", "0", "0", "0", "0", "\n">>),
     OkFile(<<49>>, <<"a", "b", "c">>),
     UnreadableFile(<<49>>)}

SensorDirs == {[name |-> n, files |-> <<f>>] : n \in SensorNames, f \in SensorFiles}

SensorTrees == {[exists |-> TRUE, dirs |-> ds] : ds \in SeqsUpTo(SensorDirs, MaxSensors)}

NoTree == [exists |-> FALSE, dirs |-> <<>>]

----------------------------------------------------------------------------
(* Sensor reads: _get_gpu_stats, _get_cpu_temp, _get_cpu_governor.         *)
(* Label text is a sequence of strings; "degC" stands for the degree sign  *)
(* followed by C.                                                          *)

NA == <<"N", "/", "A">>

\* What the telemetry query gave: [ok, text]; ok is FALSE when nvidia-smi
\* is missing or exits non-zero.  The result is <<temp, power>>.
get_gpu_stats(out) ==
    LET fields == SplitComma(Strip(out.text), <<>>) IN
    IF ~out.ok \/ Len(fields) # 2 THEN <<NA, NA>>
    ELSE <<Strip(fields[1]) \o <<"degC">>, Strip(fields[2]) \o <<"W">>>>

\* f"{v / 1000:.1f}": v / 1000 rounded to one decimal.  A tie (v % 100 = 50)
\* would go by the binary float nearest v / 1000; no sampled reading has one.
FormatTenths(v) ==
    LET a == IF v < 0 THEN 0 - v ELSE v
        t == (a + 50) \div 100
        sign == IF v < 0 THEN <<"-">> ELSE <<>>
    IN  sign \o <<ToString(t \div 10), ".", ToString(t % 10)>>

\* file is what reading self.cpu_temp_path gives now: [state, text].
get_cpu_temp(path, file) ==
    IF path = None THEN NA
    ELSE IF file.state = "unreadable" \/ ParseInt(file.text) = None THEN NA
    ELSE FormatTenths(ParseInt(file.text)[1]) \o <<"degC">>

\* file is what reading scaling_governor gives now: [state, text].
get_cpu_governor(file) ==
    IF file.state = "unreadable" THEN NA ELSE Strip(file.text)

\* A faulty variant of SensorSnapshot: the three reads under one try, so that one
\* failure blanks every field.
SensorSnapshotOneTry(path, gpu, cpu, gov) ==
    IF get_gpu_stats(gpu)[1] = NA \/ get_cpu_temp(path, cpu) = NA
       \/ get_cpu_governor(gov) = NA
    THEN [gpu_temp |-> NA, gpu_power |-> NA, cpu_temp |-> NA, cpu_gov |-> NA]
    ELSE [gpu_temp |-> get_gpu_stats(gpu)[1], gpu_power |-> get_gpu_stats(gpu)[2],
          cpu_temp |-> get_cpu_temp(path, cpu), cpu_gov |-> get_cpu_governor(gov)]

\* The four texts update_sensor_readings puts on the labels.
SensorSnapshot(path, gpu, cpu, gov) ==
    [gpu_temp |-> get_gpu_stats(gpu)[1], gpu_power |-> get_gpu_stats(gpu)[2],
     cpu_temp |-> get_cpu_temp(path, cpu), cpu_gov |-> get_cpu_governor(gov)]

GpuOutputs ==
    {[ok |-> FALSE, text |-> <<>>],
     [ok |-> TRUE, text |-> <<"6", "2", ",", " ", "1", "1", "5", ".", "3", "0", "\n">>],
     [ok |-> TRUE, text |-> <<"N", "/", "A", ",", " ", "N", "/", "A", "\n">>],
     [ok |-> TRUE, text |-> <<"\n">>],
     [ok |-> TRUE, text |-> <<"6", "2", ",", "9", "\n", "5", "5", ",", "7", "\n">>]}

CpuReads ==
    {[state |-> "unreadable", text |-> <<>>],
     [state |-> "ok", text |-> T45000],
     [state |-> "ok", text |-> <<"6", "1", "8", "7", "0", "\n">>],
     [state |-> "ok", text |-> <<"a", "b", "c">>]}

GovReads ==
    {[state |-> "unreadable", text |-> <<>>],
     [state |-> "ok", text |-> <<"performance", "\n">>],
     [state |-> "ok", text |-> <<"powersave", "\n">>]}

\* One failing and one succeeding outcome of each read.
GpuFew ==
    {[ok |-> FALSE, text |-> <<>>],
     [ok |-> TRUE, text |-> <<"6", "2", ",", " ", "1", "1", "5", ".", "3", "0", "\n">>]}
CpuFew == {[state |-> "unreadable", text |-> <<>>], [state |-> "ok", text |-> T45000]}
GovFew ==
    {[state |-> "unreadable", text |-> <<>>],
     [state |-> "ok", text |-> <<"performance", "\n">>]}

----------------------------------------------------------------------------
(* The profile batches and the privileged helper: set_*_mode,              *)
(* _run_command_block.                                                     *)

Modes == {"ai", "desktop", "powersave"}

\* f"{self.max_power_limit}"
PyStr(limit) == IF limit = None THEN "None" ELSE ToString(limit[1])

\* set_ai_mode's command_block, the commands between the "&&".
AiCommandBlock(limit) ==
    <<"cpupower frequency-set -g performance",
      "nvidia-smi -pm 1",
      "nvidia-smi -pl " \o PyStr(limit),
      "nvidia-settings -a '[gpu:0]/GpuPowerMizerMode=1'">>

\* A faulty variant of DesktopCommandBlock: persistence off before power-mizer.
DesktopCommandBlockSwapped ==
    <<"cpupower frequency-set -g performance",
      "nvidia-smi -pm 0",
      "nvidia-settings -a '[gpu:0]/GpuPowerMizerMode=2'">>

DesktopCommandBlock ==
    <<"cpupower frequency-set -g performance",
      "nvidia-settings -a '[gpu:0]/GpuPowerMizerMode=2'",
      "nvidia-smi -pm 0">>

PowersaveCommandBlock ==
    <<"cpupower frequency-set -g powersave",
      "nvidia-smi -pm 0",
      "nvidia-settings -a '[gpu:0]/GpuPowerMizerMode=2'">>

CommandBlock(m, limit) ==
    CASE m = "ai" -> AiCommandBlock(limit)
      [] m = "desktop" -> DesktopCommandBlock
      [] m = "powersave" -> PowersaveCommandBlock

\* A faulty variant of MaxPowerMissing: a truthiness test that never fires.
MaxPowerNeverMissing(limit) == FALSE

\* if self.max_power_limit is None
MaxPowerMissing(limit) == limit = None

EnvGet(k) == IF k \in DOMAIN environ THEN Some(environ[k]) ELSE None

\* A faulty variant of DisplayMissing: `display is None` instead of `not display`.
DisplayIsNone(display) == display = None

\* if not display
DisplayMissing(display) == display = None \/ display[1] = ""

\* final_shell_cmd: the exports, each ended by ";", then the batch.
FinalShellCmd(display, xauthority, block) ==
    [exports |->
        <<"export DISPLAY=" \o display[1]>>
        \o (IF xauthority # None /\ xauthority[1] # "" /\ xauth_exists
            THEN <<"export XAUTHORITY=" \o xauthority[1]>>
            ELSE <<>>),
     chain |-> block]

FullCommand(shell_cmd) == [argv |-> <<"pkexec", "sh", "-c">>, script |-> shell_cmd]

\* A faulty variant of AndList: the commands joined by ";", each run whatever
\* the one before it returned.
RECURSIVE SemicolonList(_, _, _)
SemicolonList(chain, exits, k) ==
    IF k > Len(chain) THEN <<>>
    ELSE <<[cmd |-> chain[k], exit |-> exits[k]]>> \o SemicolonList(chain, exits, k + 1)

\* sh running `c1 && c2 && ...` from command k on, exits[k] being what
\* command k returns if run: the commands run, with their exit codes.
RECURSIVE AndList(_, _, _)
AndList(chain, exits, k) ==
    IF k > Len(chain) THEN <<>>
    ELSE IF exits[k] # 0 THEN <<[cmd |-> chain[k], exit |-> exits[k]]>>
    ELSE <<[cmd |-> chain[k], exit |-> 0]>> \o AndList(chain, exits, k + 1)

\* The exit status of sh -c: that of the last command run.
ShStatus(ran) == IF ran = <<>> THEN 0 ELSE ran[Len(ran)].exit

\* pkexec's own exit codes when it runs no command: the authentication
\* dialog dismissed (126), authorization not obtained (127).
PkexecRefusals == {126, 127}

ExitCodes == {0, 1}

\* Every way pkexec sh -c <script> can end: refused, or the script run
\* with each command returning any exit code.
PkexecResults(script) ==
    {[granted |-> FALSE, ran |-> <<>>, returncode |-> r] : r \in PkexecRefusals}
    \cup {[granted |-> TRUE, ran |-> AndList(script.chain, e, 1),
           returncode |-> ShStatus(AndList(script.chain, e, 1))] :
              e \in [1..Len(script.chain) -> ExitCodes]}

----------------------------------------------------------------------------
(* Values before the window exists.                                        *)

NoWidgets == [power_info |-> [text |-> <<>>, fg |-> ""], gpu_temp |-> <<>>,
              gpu_power |-> <<>>, cpu_temp |-> <<>>, cpu_gov |-> <<>>]
NoStatus == [text |-> <<>>, fg |-> ""]
NoLog == [cb |-> "", spawned |-> <<>>, granted |-> FALSE, ran |-> <<>>,
          returncode |-> 0, done |-> FALSE]
NoReads == [gpu |-> [ok |-> FALSE, text |-> <<>>],
            cpu |-> [state |-> "unreadable", text |-> <<>>],
            gov |-> [state |-> "unreadable", text |-> <<>>]]
NotProbed == [done |-> FALSE, path |-> None, stage2 |-> FALSE, searched |-> 0,
              scanned |-> 0]
NoSmi == [calls |-> 0, queries |-> 0, out |-> <<>>, ret |-> None]
NoEnviron == [k \in {} |-> ""]

----------------------------------------------------------------------------
(* The application: __main__, __init__, the event loop and its callbacks.  *)

FG_COLOR == "#d8dee9"
SUCCESS_COLOR == "#a3be8c"
ERROR_COLOR == "#bf616a"
WARN_COLOR == "#ebcb8b"
INFO_COLOR == "#88c0d0"

Dependencies == {"pkexec", "nvidia-smi", "nvidia-settings", "cpupower"}

\* self.status_label.config(text=text, fg=...), color being optional.
update_status(text, is_error, color) ==
    [text |-> text,
     fg |-> IF color # None THEN color[1]
            ELSE IF is_error THEN ERROR_COLOR ELSE SUCCESS_COLOR]

\* The status texts; the three success texts begin with a check mark in the
\* source.
SettingText(m) ==
    CASE m = "ai" -> <<"Setting AI Mode...">>
      [] m = "desktop" -> <<"Setting Responsive Desktop Mode...">>
      [] m = "powersave" -> <<"Setting Power-Save Mode...">>

SuccessText(m) ==
    CASE m = "ai" -> <<"AI Performance Mode is ON.">>
      [] m = "desktop" -> <<"Responsive Desktop Mode is ON.">>
      [] m = "powersave" -> <<"Power-Save Mode is ON.">>

MaxPowerErrorText == <<"Error: Max Power Limit not found.">>
DisplayErrorText == <<"Error: DISPLAY environment variable not found.">>
PkexecErrorText == <<"Error: 'pkexec' not found. Please ensure Polkit is running.">>
BlockFailedText(stderr) == <<"Command block failed.\nError: ">> \o Strip(stderr)

StderrTexts == {<<>>, <<"Error executing command as another user", "\n">>}

\* display_power_limit: `if limit` is false for None and for 0.
PowerInfo(limit) ==
    IF limit # None /\ limit[1] # 0
    THEN [text |-> <<"Max GPU Power Limit: ", ToString(limit[1]), "W">>, fg |-> INFO_COLOR]
    ELSE [text |-> <<"Max GPU Power: Not Found">>, fg |-> WARN_COLOR]

TickDelayMs == 2000

\* A faulty variant of After: the callback is not registered.
AfterDropped(pending, ms, cb) == pending

\* self.after(ms, cb): one more pending timer.
After(pending, ms, cb) == Append(pending, [ms |-> ms, cb |-> cb])

\* A faulty variant of UpdateIdletasksServes: self.update(), which also runs
\* timer and button callbacks.
UpdateServes == {"timer", "button"}

\* self.update_idletasks() runs idle callbacks only: no timer callback and
\* no button command is dispatched from inside it.
UpdateIdletasksServes == {}

\* app.mainloop() dispatches both.
MainloopServes == {"timer", "button"}

Top == stack[Len(stack)]
Pop == SubSeq(stack, 1, Len(stack) - 1)
SetPc(pc) == [stack EXCEPT ![Len(stack)].pc = pc]

\* Whether an event of this kind can be dispatched now: by the main loop
\* when no callback runs, by update_idletasks when a mode callback is
\* inside update_status, by nothing while a callback computes or blocks.
Serves(kind) ==
    /\ phase = "running"
    /\ kind \in (IF stack = <<>> THEN MainloopServes
                 ELSE IF Top.pc \in {"entered", "reported"} THEN UpdateIdletasksServes
                 ELSE {})

\* Trees and reports the application is started on.
MainTrees ==
    {NoTree,
     [exists |-> TRUE,
      dirs |-> <<[name |-> NameText(<<"coretemp", "\n">>),
                  files |-> <<OkFile(<<49>>, T45000)>>]>>]}

MainSmiOutputs ==
    {SmiFailed,
     SmiReport(<<PowerLine("Max Power Limit", <<"1", "4", "0", ".", "0", "0">>, "W")>>),
     SmiReport(<<PowerLine("Max Power Limit", <<"0", ".", "0", "0">>, "W")>>)}

Environs ==
    {[k \in S |-> IF k = "DISPLAY" THEN d ELSE "/home/user/.Xauthority"] :
        S \in SUBSET {"DISPLAY", "XAUTHORITY"}, d \in {"", ":0"}}

Init ==
    /\ phase = "new"
    /\ environ \in Environs
    /\ xauth_exists \in BOOLEAN
    /\ xauth_exists => "XAUTHORITY" \in DOMAIN environ
    /\ hwmon \in MainTrees
    /\ max_power_limit = None
    /\ cpu_temp_path = None
    /\ labels = NoWidgets
    /\ status_label = NoStatus
    /\ timers = <<>>
    /\ stack = <<>>
    /\ running = 0
    /\ log = NoLog
    /\ ticked = FALSE
    /\ reads = NoReads
    /\ probe = NotProbed
    /\ smi = NoSmi

\* __main__ when os.geteuid() == 0: an error dialog and exit(1).
MainAsRoot ==
    /\ phase = "new"
    /\ phase' = "refused"
    /\ UNCHANGED <<environ, xauth_exists, hwmon, max_power_limit, cpu_temp_path,
                   labels, status_label, timers, stack, running, log, ticked,
                   reads, probe, smi>>

\* __main__ otherwise: PerformanceSwitcherApp().  The constructor finds the
\* CPU temperature source and checks the dependencies; with one missing it
\* destroys the window and returns; else it creates the widgets, shows the
\* power limit and runs update_sensor_readings once, which schedules the
\* first timer.
Construct(G, C, V) ==
    /\ phase = "new"
    /\ LET r == find_cpu_temp_path(hwmon) IN
        /\ cpu_temp_path' = r.path
        /\ probe' = [done |-> TRUE, path |-> r.path, stage2 |-> r.stage2,
                     searched |-> r.searched, scanned |-> r.scanned]
        /\ \E missing \in SUBSET Dependencies :
            IF missing # {}
            THEN /\ phase' = "aborted"
                 /\ UNCHANGED <<max_power_limit, labels, status_label, timers,
                                ticked, reads, smi>>
            ELSE \E out \in MainSmiOutputs, gpu \in G, cpu \in C, gov \in V :
                 LET q == get_max_power_limit(max_power_limit, out)
                     snap == SensorSnapshot(r.path, gpu, cpu, gov)
                 IN
                 /\ max_power_limit' = q.cache
                 /\ smi' = [calls |-> 1, queries |-> IF q.queried THEN 1 ELSE 0,
                            out |-> Some(out), ret |-> q.ret]
                 /\ status_label' = [text |-> <<"Select a mode to begin">>,
                                     fg |-> FG_COLOR]
                 /\ labels' = [power_info |-> PowerInfo(q.ret),
                               gpu_temp |-> snap.gpu_temp,
                               gpu_power |-> snap.gpu_power,
                               cpu_temp |-> snap.cpu_temp,
                               cpu_gov |-> snap.cpu_gov]
                 /\ reads' = [gpu |-> gpu, cpu |-> cpu, gov |-> gov]
                 /\ timers' = After(timers, TickDelayMs, "update_sensor_readings")
                 /\ ticked' = TRUE
                 /\ phase' = "running"
    /\ UNCHANGED <<environ, xauth_exists, hwmon, stack, running, log>>

\* The timer fires: the main loop takes it off the queue and calls
\* update_sensor_readings.
TickDispatch ==
    /\ Serves("timer")
    /\ timers # <<>>
    /\ timers' = Tail(timers)
    /\ stack' = Append(stack, [cb |-> Head(timers).cb, pc |-> "body"])
    /\ ticked' = TRUE
    /\ UNCHANGED <<phase, environ, xauth_exists, hwmon, max_power_limit,
                   cpu_temp_path, labels, status_label, running, log, reads,
                   probe, smi>>

\* update_sensor_readings: the three reads, the four labels, the next timer.
\* G, C and V are what the reads can give.
UpdateSensorReadings(G, C, V) ==
    /\ stack # <<>>
    /\ Top.cb = "update_sensor_readings"
    /\ \E gpu \in G, cpu \in C, gov \in V :
        LET snap == SensorSnapshot(cpu_temp_path, gpu, cpu, gov) IN
        /\ labels' = [labels EXCEPT !.gpu_temp = snap.gpu_temp,
                                    !.gpu_power = snap.gpu_power,
                                    !.cpu_temp = snap.cpu_temp,
                                    !.cpu_gov = snap.cpu_gov]
        /\ reads' = [gpu |-> gpu, cpu |-> cpu, gov |-> gov]
    /\ timers' = After(timers, TickDelayMs, "update_sensor_readings")
    /\ stack' = Pop
    /\ UNCHANGED <<phase, environ, xauth_exists, hwmon, max_power_limit,
                   cpu_temp_path, status_label, running, log, ticked, probe, smi>>

MainConstruct == Construct(GpuFew, CpuFew, GovFew)

TickRun == UpdateSensorReadings(GpuFew, CpuFew, GovFew)

\* A profile button is pressed: set_<m>_mode starts with
\* update_status("Setting ...") and is then inside update_idletasks.
ModePress(m) ==
    /\ Serves("button")
    /\ stack' = Append(stack, [cb |-> m, pc |-> "entered"])
    /\ status_label' = update_status(SettingText(m), FALSE, Some(FG_COLOR))
    /\ log' = [NoLog EXCEPT !.cb = m]
    /\ UNCHANGED <<phase, environ, xauth_exists, hwmon, max_power_limit,
                   cpu_temp_path, labels, timers, running, ticked, reads, probe,
                   smi>>

\* set_<m>_mode from the return of update_idletasks up to the start of
\* subprocess.run, or up to the update_status of an early error.
ModeStart ==
    /\ stack # <<>>
    /\ Top.cb \in Modes
    /\ Top.pc = "entered"
    /\ IF Top.cb = "ai" /\ MaxPowerMissing(max_power_limit)
       THEN /\ status_label' = update_status(MaxPowerErrorText, TRUE, None)
            /\ stack' = SetPc("reported")
            /\ UNCHANGED <<running, log>>
       ELSE IF DisplayMissing(EnvGet("DISPLAY"))
       THEN /\ status_label' = update_status(DisplayErrorText, TRUE, None)
            /\ stack' = SetPc("reported")
            /\ UNCHANGED <<running, log>>
       ELSE \E found \in BOOLEAN :
            IF ~found
            THEN /\ status_label' = update_status(PkexecErrorText, TRUE, None)
                 /\ stack' = SetPc("reported")
                 /\ UNCHANGED <<running, log>>
            ELSE /\ log' = [log EXCEPT !.spawned =
                               Append(@, FullCommand(FinalShellCmd(
                                   EnvGet("DISPLAY"), EnvGet("XAUTHORITY"),
                                   CommandBlock(Top.cb, max_power_limit))))]
                 /\ running' = running + 1
                 /\ stack' = SetPc("running")
                 /\ UNCHANGED status_label
    /\ UNCHANGED <<phase, environ, xauth_exists, hwmon, max_power_limit,
                   cpu_temp_path, labels, timers, ticked, reads, probe, smi>>

\* subprocess.run(..., check=True) returns or raises CalledProcessError:
\* pkexec refused, or sh ran the script and gave the status of the last
\* command run.
ModeWait ==
    /\ stack # <<>>
    /\ Top.cb \in Modes
    /\ Top.pc = "running"
    /\ \E res \in PkexecResults(log.spawned[Len(log.spawned)].script) :
       \E stderr \in (IF res.returncode # 0 THEN StderrTexts ELSE {<<>>}) :
        /\ log' = [log EXCEPT !.granted = res.granted, !.ran = res.ran,
                              !.returncode = res.returncode]
        /\ status_label' =
            IF res.returncode # 0
            THEN update_status(BlockFailedText(stderr), TRUE, None)
            ELSE update_status(SuccessText(Top.cb), FALSE, None)
    /\ running' = running - 1
    /\ stack' = SetPc("reported")
    /\ UNCHANGED <<phase, environ, xauth_exists, hwmon, max_power_limit,
                   cpu_temp_path, labels, timers, ticked, reads, probe, smi>>

\* The last update_idletasks returns and so does the callback.
ModeReturn ==
    /\ stack # <<>>
    /\ Top.cb \in Modes
    /\ Top.pc = "reported"
    /\ stack' = Pop
    /\ log' = [log EXCEPT !.done = TRUE]
    /\ UNCHANGED <<phase, environ, xauth_exists, hwmon, max_power_limit,
                   cpu_temp_path, labels, status_label, timers, running, ticked,
                   reads, probe, smi>>

\* The Quit button: self.destroy ends the main loop.
Quit ==
    /\ Serves("button")
    /\ phase' = "destroyed"
    /\ UNCHANGED <<environ, xauth_exists, hwmon, max_power_limit, cpu_temp_path,
                   labels, status_label, timers, stack, running, log, ticked,
                   reads, probe, smi>>

Next ==
    \/ MainAsRoot
    \/ MainConstruct
    \/ TickDispatch
    \/ TickRun
    \/ \E m \in Modes : ModePress(m)
    \/ ModeStart
    \/ ModeWait
    \/ ModeReturn
    \/ Quit

Spec == Init /\ [][Next]_vars

\* The application left alone (no button is pressed), with every sampled
\* outcome of the three reads.
SensorsConstruct == Construct(GpuOutputs, CpuReads, GovReads)

SensorsTickRun == UpdateSensorReadings(GpuOutputs, CpuReads, GovReads)

SensorsNext == MainAsRoot \/ SensorsConstruct \/ TickDispatch \/ SensorsTickRun

SensorsSpec == Init /\ [][SensorsNext]_vars


\* What the scheduling gives: a timer that is due is dispatched once the
\* loop is idle often enough (Tcl queues due timers in order with the other
\* events), a running callback goes on, and a subprocess ends.
FairSpec ==
    /\ Spec
    /\ SF_vars(TickDispatch)
    /\ WF_vars(TickRun)
    /\ WF_vars(ModeStart)
    /\ WF_vars(ModeWait)
    /\ WF_vars(ModeReturn)

----------------------------------------------------------------------------
(* The discovery run on every tree.                                        *)

ProbeInit ==
    /\ hwmon \in DriverTrees \cup SensorTrees \cup {NoTree}
    /\ probe = NotProbed
    /\ phase = "new"
    /\ environ = NoEnviron
    /\ xauth_exists = FALSE
    /\ max_power_limit = None
    /\ cpu_temp_path = None
    /\ labels = NoWidgets
    /\ status_label = NoStatus
    /\ timers = 0
    /\ stack = <<>>
    /\ running = 0
    /\ log = NoLog
    /\ ticked = FALSE
    /\ reads = NoReads
    /\ smi = NoSmi

\* self.cpu_temp_path = self._find_cpu_temp_path()
ProbeRun ==
    /\ ~probe.done
    /\ LET r == find_cpu_temp_path(hwmon) IN
        /\ probe' = [done |-> TRUE, path |-> r.path, stage2 |-> r.stage2,
                     searched |-> r.searched, scanned |-> r.scanned]
        /\ cpu_temp_path' = r.path
    /\ UNCHANGED <<phase, environ, xauth_exists, hwmon, max_power_limit, labels,
                   status_label, timers, stack, running, log, ticked, reads, smi>>

ProbeNext == ProbeRun

ProbeSpec == ProbeInit /\ [][ProbeNext]_vars

----------------------------------------------------------------------------
(* _get_max_power_limit called again and again on one controller.         *)

MaxCalls == 6

SmiInit ==
    /\ smi = NoSmi
    /\ max_power_limit = None
    /\ hwmon = NoTree
    /\ probe = NotProbed
    /\ phase = "new"
    /\ environ = NoEnviron
    /\ xauth_exists = FALSE
    /\ cpu_temp_path = None
    /\ labels = NoWidgets
    /\ status_label = NoStatus
    /\ timers = 0
    /\ stack = <<>>
    /\ running = 0
    /\ log = NoLog
    /\ ticked = FALSE
    /\ reads = NoReads

\* limit = self._get_max_power_limit()
SmiCall ==
    /\ smi.calls < MaxCalls
    /\ \E out \in SmiOutputs :
        LET r == get_max_power_limit(max_power_limit, out) IN
        /\ max_power_limit' = r.cache
        /\ smi' = [calls |-> smi.calls + 1,
                   queries |-> IF r.queried THEN smi.queries + 1 ELSE smi.queries,
                   out |-> IF r.queried THEN Some(out) ELSE smi.out,
                   ret |-> r.ret]
    /\ UNCHANGED <<phase, environ, xauth_exists, hwmon, cpu_temp_path, labels,
                   status_label, timers, stack, running, log, ticked, reads, probe>>

SmiNext == SmiCall

SmiSpec == SmiInit /\ [][SmiNext]_vars

----------------------------------------------------------------------------
(* Claims about the profile batches.                                       *)

C1_Governor(g) == "cpupower frequency-set -g " \o g
C1_Persistence(on) == "nvidia-smi -pm " \o on
C1_PowerLimit(watts) == "nvidia-smi -pl " \o watts
C1_PowerMizer(code) == "nvidia-settings -a '[gpu:0]/GpuPowerMizerMode=" \o code \o "'"

C1_Profile(m) ==
    CASE m = "ai" ->
            <<C1_Governor("performance"), C1_Persistence("1"),
              C1_PowerLimit(ToString(max_power_limit[1])), C1_PowerMizer("1")>>
      [] m = "desktop" ->
            <<C1_Governor("performance"), C1_PowerMizer("2"), C1_Persistence("0")>>
      [] m = "powersave" ->
            <<C1_Governor("powersave"), C1_Persistence("0"), C1_PowerMizer("2")>>

\* C1: every command handed to the helper is pkexec sh -c with a script
\* whose batch is exactly the profile's commands in the profile's order (for
\* AI with the cached limit), preceded by nothing but the exports of
\* DISPLAY and XAUTHORITY.
C1_BatchIsTheProfile ==
    \A i \in 1..Len(log.spawned) :
        /\ log.cb \in Modes
        /\ log.cb = "ai" => max_power_limit # None
        /\ log.spawned[i].argv = <<"pkexec", "sh", "-c">>
        /\ log.spawned[i].script.chain = C1_Profile(log.cb)
        /\ \A k \in 1..Len(log.spawned[i].script.exports) :
            log.spawned[i].script.exports[k] \in
                {"export DISPLAY=" \o environ["DISPLAY"],
                 "export XAUTHORITY=/home/user/.Xauthority"}

\* A desktop batch ran to its last command.
C1_Witness ==
    /\ log.cb = "desktop"
    /\ log.done
    /\ Len(log.ran) = 3
    /\ log.returncode = 0

C2_AllZero ==
    /\ log.spawned # <<>>
    /\ log.granted
    /\ Len(log.ran) = Len(log.spawned[1].script.chain)
    /\ \A k \in 1..Len(log.ran) : log.ran[k].exit = 0

\* C2: the commands run are a prefix of the batch, each after a zero exit
\* of all before it; nothing is run without the helper, and the helper is
\* launched at most once per press; a success text is on the status label
\* only for the mode pressed and only if the helper ran every command with
\* exit zero; a finished action shows the success text in that case and an
\* error otherwise.
C2_AllOrNothing ==
    /\ Len(log.spawned) <= 1
    /\ log.spawned = <<>> => log.ran = <<>>
    /\ log.spawned # <<>> =>
        /\ Len(log.ran) <= Len(log.spawned[1].script.chain)
        /\ \A k \in 1..Len(log.ran) :
            /\ log.ran[k].cmd = log.spawned[1].script.chain[k]
            /\ \A j \in 1..(k - 1) : log.ran[j].exit = 0
    /\ status_label.text \in {SuccessText(m) : m \in Modes} =>
        /\ status_label.text = SuccessText(log.cb)
        /\ C2_AllZero
    /\ log.done =>
        IF C2_AllZero
        THEN status_label = [text |-> SuccessText(log.cb), fg |-> SUCCESS_COLOR]
        ELSE /\ status_label.fg = ERROR_COLOR
             /\ status_label.text # SettingText(log.cb)

\* The second command of a batch failed: the rest was not run and the
\* action ended with an error.
C2_Witness ==
    /\ log.done
    /\ Len(log.ran) = 2
    /\ log.ran[2].exit # 0
    /\ Len(log.spawned[1].script.chain) > 2
    /\ status_label.fg = ERROR_COLOR

\* C3: with no cached limit, an AI action launches nothing, runs nothing,
\* queries nvidia-smi no further (the one query is the constructor's), and
\* ends with the error text; an AI batch is launched only with a cached
\* limit.
C3_AiNeedsCachedLimit ==
    /\ (log.cb = "ai" /\ max_power_limit = None) =>
        /\ log.spawned = <<>>
        /\ log.ran = <<>>
        /\ running = 0
        /\ smi.calls = 1 /\ smi.queries = 1
        /\ status_label.text \in {SettingText("ai"), MaxPowerErrorText}
        /\ log.done => status_label = [text |-> MaxPowerErrorText, fg |-> ERROR_COLOR]
    /\ (log.cb = "ai" /\ log.spawned # <<>>) => max_power_limit # None

\* An AI action refused after a desktop batch had succeeded and ticks ran.
C3_Witness ==
    /\ log.cb = "ai"
    /\ log.done
    /\ max_power_limit = None
    /\ "DISPLAY" \in DOMAIN environ /\ environ["DISPLAY"] = ":0"
    /\ status_label.text = MaxPowerErrorText

C4_DisplayAbsent == "DISPLAY" \notin DOMAIN environ \/ environ["DISPLAY"] = ""

\* C4: with DISPLAY unset or empty no helper is ever launched and no
\* command run, no success text is shown, and every finished profile action
\* shows an error: the DISPLAY error, or for AI without a cached limit the
\* limit error that precedes it.
C4_NoDisplayBlocks ==
    C4_DisplayAbsent =>
        /\ running = 0
        /\ log.spawned = <<>>
        /\ log.ran = <<>>
        /\ status_label.text \notin {SuccessText(m) : m \in Modes}
        /\ (log.cb \in Modes /\ log.done) =>
            /\ status_label.fg = ERROR_COLOR
            /\ status_label.text =
                IF log.cb = "ai" /\ max_power_limit = None
                THEN MaxPowerErrorText
                ELSE DisplayErrorText

\* A desktop action blocked with DISPLAY set to the empty string.
C4_Witness ==
    /\ "DISPLAY" \in DOMAIN environ
    /\ environ["DISPLAY"] = ""
    /\ log.cb = "desktop"
    /\ log.done
    /\ status_label.text = DisplayErrorText

----------------------------------------------------------------------------
(* Claims about the max power limit cache.                                 *)

\* What C5 calls an output lacking the pattern, or a failed query.
C5_LacksPattern(out) ==
    \/ ~out.ok
    \/ \A i \in 1..Len(out.lines) :
        ~(/\ out.lines[i].key = "Max Power Limit"
          /\ out.lines[i].unit = "W"
          /\ out.lines[i].num # <<>>
          /\ \A k \in 1..Len(out.lines[i].num) :
                out.lines[i].num[k] \in Digits \cup {"."})

\* C5: a call on an empty cache queries once, and if the output lacks the
\* pattern (or the query fails) it returns None and leaves the cache empty;
\* a value is cached only as the value just returned; a call on a filled
\* cache returns the cached value, queries nothing and leaves it unchanged.
C5_CachesOnlySuccesses ==
    [][smi'.calls # smi.calls =>
        /\ max_power_limit # None =>
            /\ max_power_limit' = max_power_limit
            /\ smi'.ret = max_power_limit
            /\ smi'.queries = smi.queries
        /\ max_power_limit = None =>
            /\ smi'.queries = smi.queries + 1
            /\ C5_LacksPattern(smi'.out[1]) =>
                /\ smi'.ret = None
                /\ max_power_limit' = None
            /\ max_power_limit' # None =>
                /\ smi'.ret = max_power_limit'
                /\ ~C5_LacksPattern(smi'.out[1])
      ]_vars

\* A failed query, then a successful one, then a call served by the cache.
C5_Witness ==
    /\ smi.calls = 3
    /\ smi.queries = 2
    /\ max_power_limit = Some(140)
    /\ smi.ret = Some(140)

----------------------------------------------------------------------------
(* Claims about the discovery.                                             *)

DriverMatch(d) == d.name.state = "ok" /\ Strip(d.name.text) \in CpuDrivers

FirstIndex(n, P(_)) == CHOOSE i \in 1..n : P(i) /\ \A j \in 1..(i - 1) : ~P(j)

\* The result is a file of directory m that no file of m precedes
\* lexicographically.
LexFirstOf(m) ==
    /\ probe.path # None
    /\ probe.path[1].d = m
    /\ \E k \in 1..Len(hwmon.dirs[m].files) :
           hwmon.dirs[m].files[k].name = probe.path[1].f
    /\ \A k \in 1..Len(hwmon.dirs[m].files) :
           ~LexLess(Append(hwmon.dirs[m].files[k].name, 95),
                    Append(probe.path[1].f, 95))

\* C6 as stated: whenever some directory's name is coretemp or k10temp, the
\* first such directory decides: its lexicographically first temp*_input is
\* returned, no later directory is searched, Stage 2 is not reached.
C6_FirstNamedDirDecides ==
    (probe.done /\ hwmon.exists /\ \E i \in 1..Len(hwmon.dirs) : DriverMatch(hwmon.dirs[i]))
    => LET IsMatch(i) == DriverMatch(hwmon.dirs[i])
           m == FirstIndex(Len(hwmon.dirs), IsMatch)
       IN  LexFirstOf(m) /\ probe.searched = m /\ ~probe.stage2

\* C6 amended: Stage 1 walks the directories in scan order up to the first
\* one that either has an unreadable name or has a coretemp/k10temp name and
\* at least one temp*_input file.  In the second case that directory decides:
\* its lexicographically first file is returned, no later directory is
\* searched and Stage 2 is not reached.  In the first case, and when no
\* directory stops the walk, Stage 1 returns nothing and Stage 2 is reached.
C6_FirstNamedNonEmptyDirDecides ==
    (probe.done /\ hwmon.exists)
    => LET Stops(i) ==
               \/ hwmon.dirs[i].name.state = "unreadable"
               \/ DriverMatch(hwmon.dirs[i]) /\ hwmon.dirs[i].files # <<>>
       IN  IF \E i \in 1..Len(hwmon.dirs) : Stops(i)
           THEN LET m == FirstIndex(Len(hwmon.dirs), Stops) IN
                IF DriverMatch(hwmon.dirs[m])
                THEN LexFirstOf(m) /\ probe.searched = m /\ ~probe.stage2
                ELSE probe.stage2 /\ probe.searched = m
           ELSE probe.stage2 /\ probe.searched = Len(hwmon.dirs)

\* A named directory without files was passed over, and the next named
\* directory decided with a file that is not the first in scan order.
C6_Witness ==
    /\ probe.done /\ ~probe.stage2 /\ probe.path # None
    /\ Len(hwmon.dirs) = 2
    /\ DriverMatch(hwmon.dirs[1]) /\ hwmon.dirs[1].files = <<>>
    /\ probe.path[1].d = 2
    /\ Len(hwmon.dirs[2].files) = 2
    /\ hwmon.dirs[2].files[1].name # probe.path[1].f

\* What C7 says of one yielded file: not an nvidia sensor, name and value
\* readable, value an integer strictly between 10000 and 120000.
C7_Qualifies(e) ==
    LET d == hwmon.dirs[e.d]
        f == d.files[e.k]
    IN  /\ d.name.state # "unreadable"
        /\ ~(d.name.state = "ok" /\ ContainsNvidia(Strip(d.name.text)))
        /\ f.state = "ok"
        /\ ParseInt(f.text) # None
        /\ 10000 < ParseInt(f.text)[1] /\ ParseInt(f.text)[1] < 120000

\* C7 as stated: when Stage 2 is reached, the result is the first yielded
\* file that qualifies, every other file (unreadable name included) being
\* skipped; discovery fails only if no file qualifies.
C7_FirstPlausibleFileWins ==
    (probe.done /\ probe.stage2)
    => LET flat == Flatten(hwmon.dirs, 1)
           Q(j) == C7_Qualifies(flat[j])
       IN  IF \E j \in 1..Len(flat) : Q(j)
           THEN LET e == flat[FirstIndex(Len(flat), Q)] IN
                probe.path = Some(PathOf(e.d, hwmon.dirs[e.d].files[e.k]))
           ELSE probe.path = None

\* The same on the trees whose yielded files all have a readable or absent
\* name: there C7 describes the scan.
C7_HoldsWhenNamesReadable ==
    (\A i \in 1..Len(hwmon.dirs) :
        hwmon.dirs[i].files # <<>> => hwmon.dirs[i].name.state # "unreadable")
    => C7_FirstPlausibleFileWins

----------------------------------------------------------------------------
(* Claims about the sensor reads.                                          *)

C8_GpuFails ==
    \/ ~reads.gpu.ok
    \/ Cardinality({i \in 1..Len(reads.gpu.text) : reads.gpu.text[i] = ","}) # 1

C8_CpuFails ==
    \/ reads.cpu.state = "unreadable"
    \/ ParseInt(reads.cpu.text) = None

C8_GovFails == reads.gov.state = "unreadable"

\* C8: after every tick each field is N/A exactly when its own read failed
\* (CPU temp also when no source was discovered), whatever the other reads
\* did; the two GPU fields are N/A together; and the sampled good readings
\* show as themselves whatever the other reads did.
C8_ReadsAreIndependent ==
    phase = "running" =>
        /\ labels.gpu_temp = NA <=> C8_GpuFails
        /\ labels.gpu_power = NA <=> C8_GpuFails
        /\ labels.cpu_temp = NA <=> (cpu_temp_path = None \/ C8_CpuFails)
        /\ labels.cpu_gov = NA <=> C8_GovFails
        /\ (reads.gpu.ok /\ reads.gpu.text =
                <<"6", "2", ",", " ", "1", "1", "5", ".", "3", "0", "\n">>) =>
            /\ labels.gpu_temp = <<"6", "2", "degC">>
            /\ labels.gpu_power = <<"1", "1", "5", ".", "3", "0", "W">>
        /\ (cpu_temp_path # None /\ reads.cpu.state = "ok" /\ reads.cpu.text = T45000) =>
            labels.cpu_temp = <<"45", ".", "0", "degC">>
        /\ (reads.gov.state = "ok" /\ reads.gov.text = <<"performance", "\n">>) =>
            labels.cpu_gov = <<"performance">>

\* The GPU query failed and the governor was unreadable in a tick whose CPU
\* temperature read succeeded.
C8_Witness ==
    /\ phase = "running"
    /\ stack = <<>>
    /\ ~reads.gpu.ok
    /\ reads.gov.state = "unreadable"
    /\ labels.gpu_temp = NA
    /\ labels.cpu_temp = <<"45", ".", "0", "degC">>

----------------------------------------------------------------------------
(* Claims about the event loop.                                            *)

TickFrames == Cardinality({i \in 1..Len(stack) : stack[i].cb = "update_sensor_readings"})

\* C9: at most one helper is in flight and at most one callback is being
\* executed; while a helper is in flight the only callback is the profile
\* action waiting for it.
C9_OneCallbackAtATime ==
    /\ running <= 1
    /\ Len(stack) <= 1
    /\ running = 1 => (stack # <<>> /\ Top.cb \in Modes /\ Top.pc = "running")

\* A batch in flight while the tick's timer is pending.
C9_Witness ==
    /\ running = 1
    /\ timers # <<>>
    /\ stack # <<>> /\ Top.pc = "running"

\* C10: while the application runs, exactly one tick is pending or being
\* executed; a start refused or aborted by the dependency check never runs a
\* tick; and from every moment of a running application a tick is executed
\* later, unless the application is quit.
C10_TicksForever ==
    /\ [](phase = "running" => Len(timers) + TickFrames = 1)
    /\ [](phase \in {"aborted", "refused", "new"} => (~ticked /\ timers = <<>>))
    /\ [](phase = "running" => <>(TickFrames = 1 \/ phase # "running"))

\* A tick being executed after a profile batch failed.
C10_Witness ==
    /\ phase = "running"
    /\ TickFrames = 1
    /\ timers = <<>>
    /\ log.done /\ log.returncode # 0

====
